---- MODULE Spec2Model ----
(***************************************************************************)
(* Model of switchbot_floor_lamp_rainy.py: one invocation of main() as a   *)
(* sequential process whose steps are its external HTTP calls, and the     *)
(* pure helpers (sanitizer, colour mappers, temperature formatter) as      *)
(* operators.                                                              *)
(*                                                                         *)
(* Representation of Python values:                                        *)
(*   str      a sequence of one-character strings; literal text of an      *)
(*            f-string is kept as one multi-character token                *)
(*   None     the one-token sequence None where a str is expected, the     *)
(*            record NoneObj where a dict is expected                      *)
(*   dict     a function from key strings to values; {} is EmptyDict       *)
(*   a call   a record [exc, val]: exc = TRUE when the call raises         *)
(* The remote services answer within their interface: the device API and   *)
(* the forecast provider answer 2xx bodies that are JSON objects with      *)
(* string (or null) leaves, or fail at the transport, status or parse      *)
(* level.                                                                  *)
(***************************************************************************)
EXTENDS Integers, Sequences, FiniteSets, TLC

VARIABLES
    USE_COLOR_TEMPERATURE,  \* module constant read from the environment
    DISCORD_ENABLED,        \* module constant read from the environment
    DISCORD_WEBHOOK_URL,    \* module constant read from the environment
    pc,                     \* position of main() / of the unit call
    rain,                   \* main: rain
    weather_data,           \* main: weather_data
    lamp_setting,           \* main: lamp_setting
    trace,                  \* the external HTTP calls issued so far, in order
    log,                    \* the outcome records logged so far, in order
    discord_resp,           \* outcome of the webhook POST, "none" if not made
    discord_ret,            \* value returned by send_discord_notification
    result,                 \* value returned by main()
    fn,                     \* unit call: the function applied
    arg,                    \* unit call: its argument
    out                     \* unit call: its result

vars == <<USE_COLOR_TEMPERATURE, DISCORD_ENABLED, DISCORD_WEBHOOK_URL, pc, rain,
          weather_data, lamp_setting, trace, log, discord_resp, discord_ret,
          result, fn, arg, out>>

config == <<USE_COLOR_TEMPERATURE, DISCORD_ENABLED, DISCORD_WEBHOOK_URL>>

unit == <<fn, arg, out>>

-----------------------------------------------------------------------------
(* Python values *)

None == <<"None">>

NoneObj == [None |-> TRUE]

EmptyDict == [k \in {} |-> k]

IsDict(x) == "None" \notin DOMAIN x

\* truthiness of a dict-or-None value
TruthyDict(x) == IsDict(x) /\ DOMAIN x # {}

\* truthiness of a str-or-None value
TruthyStr(s) == s # None /\ s # <<>>

\* d.get(k, default)
DictGet(d, k, default) == IF k \in DOMAIN d THEN d[k] ELSE default

Returns(v) == [exc |-> FALSE, val |-> v]

Raises == [exc |-> TRUE, val |-> None]

Digits == <<"0", "1", "2", "3", "4", "5", "6", "7", "8", "9">>

IsDigit(c) == \E i \in 1..10 : Digits[i] = c

DigitVal(c) == (CHOOSE i \in 1..10 : Digits[i] = c) - 1

\* int(s) for a non-empty string of digits
RECURSIVE IntOfDigits(_)
IntOfDigits(s) ==
    IF Len(s) = 0 THEN 0
    ELSE 10 * IntOfDigits(SubSeq(s, 1, Len(s) - 1)) + DigitVal(s[Len(s)])

\* str(n) for n >= 0
RECURSIVE Str(_)
Str(n) == IF n < 10 THEN <<Digits[n + 1]>> ELSE Str(n \div 10) \o <<Digits[(n % 10) + 1]>>

Max2(a, b) == IF a >= b THEN a ELSE b

Min2(a, b) == IF a <= b THEN a ELSE b

-----------------------------------------------------------------------------
(* Weather helpers *)

\* re.sub(r"\D", "", s)
ReSubNonDigits(s) == SelectSeq(s, IsDigit)

_to_int_pct(s) ==
    LET t == IF TruthyStr(s) THEN s ELSE <<>>       \* s or ""
        d == ReSubNonDigits(t)
    IN  IF d # <<>> THEN IntOfDigits(d) ELSE 0      \* int(d or 0)

\* max(slots.values())
SlotsMax(slots) == Max2(slots.T06_12, Max2(slots.T12_18, slots.T18_24))

\* data["forecasts"][0]["chanceOfRain"] evaluates without KeyError/IndexError
HasChanceOfRain(data) ==
    /\ "forecasts" \in DOMAIN data
    /\ Len(data.forecasts) > 0
    /\ "chanceOfRain" \in DOMAIN data.forecasts[1]

\* mutant: the exceptions of the fetch are not caught
get_today_rain_percent_max_all_uncaught(resp) ==
    IF resp.kind # "json" \/ ~HasChanceOfRain(resp.data)
    THEN Raises
    ELSE LET r == resp.data.forecasts[1].chanceOfRain
             slots == [T06_12 |-> _to_int_pct(DictGet(r, "T06_12", <<>>)),
                       T12_18 |-> _to_int_pct(DictGet(r, "T12_18", <<>>)),
                       T18_24 |-> _to_int_pct(DictGet(r, "T18_24", <<>>))]
         IN  Returns(<<SlotsMax(slots), resp.data>>)

\* mutant: the 00-06 slot takes part in the maximum
get_today_rain_percent_max_all_four_slots(resp) ==
    IF resp.kind # "json" \/ ~HasChanceOfRain(resp.data)
    THEN Returns(<<0, EmptyDict>>)
    ELSE LET r == resp.data.forecasts[1].chanceOfRain
             slots == [T06_12 |-> _to_int_pct(DictGet(r, "T06_12", <<>>)),
                       T12_18 |-> _to_int_pct(DictGet(r, "T12_18", <<>>)),
                       T18_24 |-> _to_int_pct(DictGet(r, "T18_24", <<>>))]
         IN  Returns(<<Max2(_to_int_pct(DictGet(r, "T00_06", <<>>)), SlotsMax(slots)),
                       resp.data>>)

\* resp: what requests.get meets: a transport error, a non-2xx status, a body
\* that is not JSON, or a 2xx JSON object
get_today_rain_percent_max_all(resp) ==
    IF resp.kind # "json" \/ ~HasChanceOfRain(resp.data)
    THEN Returns(<<0, EmptyDict>>)
    ELSE LET r == resp.data.forecasts[1].chanceOfRain
             slots == [T06_12 |-> _to_int_pct(DictGet(r, "T06_12", <<>>)),
                       T12_18 |-> _to_int_pct(DictGet(r, "T12_18", <<>>)),
                       T18_24 |-> _to_int_pct(DictGet(r, "T18_24", <<>>))]
         IN  Returns(<<SlotsMax(slots), resp.data>>)

\* what get_today_rain_percent_max_all logs about the outcome
get_today_rain_percent_max_all_log(resp) ==
    IF resp.kind # "json" \/ ~HasChanceOfRain(resp.data)
    THEN <<[level |-> "error", logger |-> "weather"]>>
    ELSE <<>>

-----------------------------------------------------------------------------
(* SwitchBot command *)

\* mutant: the exceptions of the request are not caught
post_command_uncaught(resp) ==
    IF resp.kind = "json" THEN Returns(resp.data) ELSE Raises

\* resp: a transport error, a non-2xx status, a 2xx body that is not JSON
\* (requests.exceptions.JSONDecodeError is a RequestException), or a 2xx JSON
\* object payload
post_command(resp) ==
    IF resp.kind = "json" THEN Returns(resp.data) ELSE Returns(NoneObj)

\* the level post_command logs the outcome at
post_command_log(resp) ==
    IF /\ resp.kind = "json"
       /\ "statusCode" \in DOMAIN resp.data
       /\ resp.data.statusCode = 100
    THEN [level |-> "info", logger |-> "post_command"]
    ELSE [level |-> "error", logger |-> "post_command"]

clamp_brightness(brightness) == Max2(1, Min2(100, brightness))

\* f"{r}:{g}:{b}" after the per-channel clamp of set_lamp_rgb
RgbParameter(color) ==
    LET c(i) == Max2(0, Min2(255, color[i]))
    IN  Str(c(1)) \o <<":">> \o Str(c(2)) \o <<":">> \o Str(c(3))

\* str(ct) after the clamp of set_lamp_ct
CtParameter(color_temperature) == Str(Max2(2700, Min2(6500, color_temperature)))

-----------------------------------------------------------------------------
(* Mapping: rain% -> RGB / CT *)

\* mutant: the bucket boundaries belong to the upper bucket
map_rain_to_rgb_strict(r) ==
    IF r = 0 THEN <<255, 127, 0>>
    ELSE IF r < 20 THEN <<255, 255, 0>>
    ELSE IF r < 40 THEN <<127, 255, 0>>
    ELSE IF r < 60 THEN <<0, 255, 255>>
    ELSE IF r < 80 THEN <<0, 127, 255>>
    ELSE <<0, 0, 255>>

map_rain_to_rgb(r) ==
    IF r = 0 THEN <<255, 127, 0>>
    ELSE IF r <= 20 THEN <<255, 255, 0>>
    ELSE IF r <= 40 THEN <<127, 255, 0>>
    ELSE IF r <= 60 THEN <<0, 255, 255>>
    ELSE IF r <= 80 THEN <<0, 127, 255>>
    ELSE <<0, 0, 255>>

-----------------------------------------------------------------------------
(* IEEE 754 binary64 arithmetic, as far as map_rain_to_ct uses it.          *)
(* A number is held in fixed point: NLimbs limbs of LimbBits bits, most     *)
(* significant first, the first limb the integer part and the others the    *)
(* fraction.  A double in the range used here is such a number with at most *)
(* MantissaBits significant bits, and every operation rounds its exact       *)
(* result to the nearest one, ties to even.                                  *)

MantissaBits == 53

LimbBits == 15

FracLimbs == 5

Limb == 2 ^ LimbBits

NLimbs == FracLimbs + 1

FixOfInt(k) == [i \in 1..NLimbs |-> IF i = 1 THEN k ELSE 0]

\* the first n limbs of rem / d after the binary point, 0 <= rem < d
RECURSIVE FracLimbsOf(_, _, _)
FracLimbsOf(rem, d, n) ==
    IF n = 0 THEN <<>>
    ELSE <<(rem * Limb) \div d>> \o FracLimbsOf((rem * Limb) % d, d, n - 1)

\* the remainder left after those n limbs
RECURSIVE FracRemOf(_, _, _)
FracRemOf(rem, d, n) ==
    IF n = 0 THEN rem ELSE FracRemOf((rem * Limb) % d, d, n - 1)

\* x + y with carry c into the last limb
RECURSIVE FixAdd(_, _, _)
FixAdd(x, y, c) ==
    IF x = <<>> THEN <<>>
    ELSE LET n == Len(x)
             t == x[n] + y[n] + c
         IN  IF n = 1 THEN <<t>>
             ELSE FixAdd(SubSeq(x, 1, n - 1), SubSeq(y, 1, n - 1), t \div Limb) \o <<t % Limb>>

\* x * k with carry c into the last limb
RECURSIVE FixMulInt(_, _, _)
FixMulInt(x, k, c) ==
    IF x = <<>> THEN <<>>
    ELSE LET n == Len(x)
             t == x[n] * k + c
         IN  IF n = 1 THEN <<t>>
             ELSE FixMulInt(SubSeq(x, 1, n - 1), k, t \div Limb) \o <<t % Limb>>

\* bit j of x, bit 0 the most significant bit of the first limb
Bit(x, j) == (x[(j \div LimbBits) + 1] \div (2 ^ (LimbBits - 1 - (j % LimbBits)))) % 2

\* the double nearest to x (+ something below its last bit when sticky)
RoundNearestEven(x, sticky) ==
    LET N == NLimbs * LimbBits
        ones == {j \in 0..(N - 1) : Bit(x, j) = 1}
    IN  IF ones = {} THEN x
        ELSE LET lead == CHOOSE j \in ones : \A k \in ones : j <= k
                 rpos == lead + MantissaBits        \* the first bit dropped
             IN  IF rpos > N - 1 THEN x
                 ELSE LET low(i) == Max2(0, Min2(LimbBits, i * LimbBits - rpos))
                          keep == [i \in 1..NLimbs |-> x[i] - (x[i] % (2 ^ low(i)))]
                          st == sticky \/ \E j \in (rpos + 1)..(N - 1) : Bit(x, j) = 1
                          up == Bit(x, rpos) = 1 /\ (st \/ Bit(x, rpos - 1) = 1)
                          ulp == [i \in 1..NLimbs |->
                                    IF i = ((rpos - 1) \div LimbBits) + 1
                                    THEN 2 ^ (LimbBits - 1 - ((rpos - 1) % LimbBits))
                                    ELSE 0]
                      IN  IF up THEN FixAdd(keep, ulp, 0) ELSE keep

\* float(a) / float(d) for integers a >= 0, d > 0
FloatDiv(a, d) ==
    RoundNearestEven(<<a \div d>> \o FracLimbsOf(a % d, d, FracLimbs),
                     FracRemOf(a % d, d, FracLimbs) # 0)

\* float(k) * x for an integer k > 0
FloatMulInt(k, x) == RoundNearestEven(FixMulInt(x, k, 0), FALSE)

\* float(k) + x for an integer k > 0
FloatAddInt(k, x) == RoundNearestEven(FixAdd(FixOfInt(k), x, 0), FALSE)

\* int(x): truncation
FloatToInt(x) == x[1]

ct_min == 2700

ct_max == 6500

\* int(ct_min + (ct_max - ct_min) * (rain / 100.0)) for each clamped rain
Interpolated ==
    [c \in 0..100 |->
        FloatToInt(FloatAddInt(ct_min, FloatMulInt(ct_max - ct_min, FloatDiv(c, 100))))]

\* mutant: rain / 100 is an integer division
map_rain_to_ct_floor_div(r) ==
    ct_min + (ct_max - ct_min) * (Max2(0, Min2(100, r)) \div 100)

map_rain_to_ct(r) == Interpolated[Max2(0, Min2(100, r))]

-----------------------------------------------------------------------------
(* Discord helpers *)

rgb_to_decimal(rgb) == rgb[1] * 65536 + rgb[2] * 256 + rgb[3]

\* s.strip(): leading and trailing blanks removed
RECURSIVE Strip(_)
Strip(s) ==
    IF s = <<>> THEN s
    ELSE IF Head(s) = " " THEN Strip(Tail(s))
    ELSE IF s[Len(s)] = " " THEN Strip(SubSeq(s, 1, Len(s) - 1))
    ELSE s

\* mutant: a missing min or max key is treated like a null component
format_temperature_lenient(temp) ==
    IF ~TruthyDict(temp) THEN <<"--">>
    ELSE LET min_data == DictGet(temp, "min", EmptyDict)
             max_data == DictGet(temp, "max", EmptyDict)
             min_get == IF IsDict(min_data) THEN DictGet(min_data, "celsius", None) ELSE None
             max_get == IF IsDict(max_data) THEN DictGet(max_data, "celsius", None) ELSE None
             min_c == IF TruthyStr(min_get) /\ TruthyStr(Strip(min_get)) THEN min_get ELSE None
             max_c == IF TruthyStr(max_get) /\ TruthyStr(Strip(max_get)) THEN max_get ELSE None
         IN  IF TruthyStr(min_c) /\ TruthyStr(max_c)
             THEN min_c \o <<"C / ">> \o max_c \o <<"C">>
             ELSE IF TruthyStr(max_c) THEN <<"Max ">> \o max_c \o <<"C">>
             ELSE IF TruthyStr(min_c) THEN <<"Min ">> \o min_c \o <<"C">>
             ELSE <<"--">>

format_temperature(temp) ==
    IF ~TruthyDict(temp) \/ "min" \notin DOMAIN temp \/ "max" \notin DOMAIN temp
    THEN <<"--">>
    ELSE LET min_data == temp.min
             max_data == temp.max
             min_get == IF IsDict(min_data) THEN DictGet(min_data, "celsius", None) ELSE None
             max_get == IF IsDict(max_data) THEN DictGet(max_data, "celsius", None) ELSE None
             min_c == IF TruthyStr(min_get) /\ TruthyStr(Strip(min_get)) THEN min_get ELSE None
             max_c == IF TruthyStr(max_get) /\ TruthyStr(Strip(max_get)) THEN max_get ELSE None
         IN  IF TruthyStr(min_c) /\ TruthyStr(max_c)
             THEN min_c \o <<"C / ">> \o max_c \o <<"C">>
             ELSE IF TruthyStr(max_c) THEN <<"Max ">> \o max_c \o <<"C">>
             ELSE IF TruthyStr(min_c) THEN <<"Min ">> \o min_c \o <<"C">>
             ELSE <<"--">>

\* the fields of the embed that depend on the forecast slots, the temperature
\* and the lamp setting; title, url, description, thumbnail, footer and the
\* detail field are free text copied from the payload and are left out
build_discord_embed(wd, ls, use_ct) ==
    IF ~TruthyDict(wd) THEN EmptyDict
    ELSE LET forecast == wd.forecasts[1]
             r == DictGet(forecast, "chanceOfRain", EmptyDict)
             slot(k) == LET t == DictGet(r, k, <<"--">>)
                        IN  IF TruthyStr(t) THEN t ELSE <<"--%">>
             rgb == DictGet(ls, "rgb", <<255, 127, 0>>)
             shown == DictGet(ls, "rgb", <<0, 0, 0>>)
         IN  [color |-> rgb_to_decimal(rgb),
              fields |-> <<
                [name |-> "Precipitation (Max)", value |-> Str(DictGet(ls, "max_rain", 0)) \o <<"%">>],
                [name |-> "06-12", value |-> slot("T06_12")],
                [name |-> "12-18", value |-> slot("T12_18")],
                [name |-> "18-24", value |-> slot("T18_24")],
                [name |-> "Temperature",
                 value |-> format_temperature(DictGet(forecast, "temperature", EmptyDict))],
                [name |-> "Lamp Setting",
                 value |-> IF use_ct
                           THEN <<"Color Temp: ">> \o Str(DictGet(ls, "ct", 0)) \o <<"K">>
                           ELSE <<"RGB(">> \o Str(shown[1]) \o <<",">> \o Str(shown[2])
                                \o <<",">> \o Str(shown[3]) \o <<")">>] >>]

\* mutant: the exceptions of the webhook POST are not caught
send_discord_notification_uncaught(wd, ls, enabled, url, use_ct, resp) ==
    IF ~enabled THEN Returns([posted |-> FALSE, ret |-> TRUE])
    ELSE IF url = "" THEN Returns([posted |-> FALSE, ret |-> FALSE])
    ELSE IF ~TruthyDict(build_discord_embed(wd, ls, use_ct))
         THEN Returns([posted |-> FALSE, ret |-> FALSE])
    ELSE IF resp = "ok" THEN Returns([posted |-> TRUE, ret |-> TRUE])
    ELSE Raises

\* mutant: the webhook URL is checked before the enabled flag
send_discord_notification_url_first(wd, ls, enabled, url, use_ct, resp) ==
    IF url = "" THEN Returns([posted |-> FALSE, ret |-> FALSE])
    ELSE IF ~enabled THEN Returns([posted |-> FALSE, ret |-> TRUE])
    ELSE IF ~TruthyDict(build_discord_embed(wd, ls, use_ct))
         THEN Returns([posted |-> FALSE, ret |-> FALSE])
    ELSE Returns([posted |-> TRUE, ret |-> (resp = "ok")])

\* resp: outcome of the webhook POST, consulted only when the POST is made.
\* val.posted tells whether the POST was made, val.ret is the return value.
send_discord_notification(wd, ls, enabled, url, use_ct, resp) ==
    IF ~enabled THEN Returns([posted |-> FALSE, ret |-> TRUE])
    ELSE IF url = "" THEN Returns([posted |-> FALSE, ret |-> FALSE])
    ELSE IF ~TruthyDict(build_discord_embed(wd, ls, use_ct))
         THEN Returns([posted |-> FALSE, ret |-> FALSE])
    ELSE Returns([posted |-> TRUE, ret |-> (resp = "ok")])

\* what send_discord_notification logs about the outcome r of the call
send_discord_notification_log(r, resp) ==
    IF r.exc THEN <<>>
    ELSE IF r.val.ret /\ r.val.posted THEN <<>>
    ELSE IF r.val.ret THEN <<>>
    ELSE <<[level |-> "warning", logger |-> "discord"]>>

-----------------------------------------------------------------------------
(* What the remote services can answer *)

\* the key of a dict is absent: where a str is expected, where a dict is expected
Missing == <<"Missing">>

MissingObj == [Missing |-> TRUE]

\* the dict with the keys of f whose (str) value is not Missing
Dict(f) == [k \in {j \in DOMAIN f : f[j] # Missing} |-> f[k]]

\* the dict with the keys of f whose (dict) value is not MissingObj
DictOfObjects(f) == [k \in {j \in DOMAIN f : "Missing" \notin DOMAIN f[j]} |-> f[k]]

\* chanceOfRain strings of the three slots main() reduces
DaySlotValues ==
    { Missing,
      <<"-", "-", "%">>,
      <<"4", "0", "%">>,
      <<"1", "5", "0", "%">>,
      <<"1", "2", ".", "5", "%">> }

\* chanceOfRain strings of the 00-06 slot
NightSlotValues == { <<"1", "0", "%">>, <<"9", "0", "%">> }

RainDicts ==
    { Dict([T00_06 |-> a, T06_12 |-> b, T12_18 |-> c, T18_24 |-> d]) :
        a \in NightSlotValues, b \in DaySlotValues, c \in DaySlotValues, d \in DaySlotValues }

\* celsius of a temperature sub-object
CelsiusValues == { Missing, None, <<>>, <<" ">>, <<"9">>, <<"1", "5">> }

\* temperature.min / temperature.max
TempSubObjects == { MissingObj, NoneObj } \cup { Dict([celsius |-> c]) : c \in CelsiusValues }

\* the arguments of format_temperature
Temperatures ==
    { NoneObj }
    \cup { DictOfObjects([min |-> a, max |-> b]) : a \in TempSubObjects, b \in TempSubObjects }

\* the temperatures the forecast bodies of a run carry
RunTemperatures ==
    { [min |-> [celsius |-> None], max |-> [celsius |-> <<"1", "5">>]] }

ForecastBodies ==
    { EmptyDict, [forecasts |-> <<>>] }
    \cup { [forecasts |-> <<[temperature |-> t]>>] : t \in RunTemperatures }
    \cup { [forecasts |-> <<[chanceOfRain |-> r, temperature |-> t]>>] :
             r \in RainDicts, t \in RunTemperatures }

FailureKinds == { "network_error", "http_error", "bad_json" }

ForecastResponses ==
    { [kind |-> k] : k \in FailureKinds }
    \cup { [kind |-> "json", data |-> d] : d \in ForecastBodies }

\* statusCode values of the device API: 100 is success
StatusCodes == { 100, 151, 160, 161, 171, 190 }

CommandResponses ==
    { [kind |-> k] : k \in FailureKinds }
    \cup { [kind |-> "json", data |-> [statusCode |-> c, message |-> "m"]] : c \in StatusCodes }
    \cup { [kind |-> "json", data |-> [message |-> "m"]] }

WebhookResponses == { "ok", "http_error", "network_error" }

WebhookUrls == { "", "https://discord.example/api/webhooks/1" }

-----------------------------------------------------------------------------
(* main() *)

Brightness == 100

Get == [method |-> "GET", url |-> "weather"]

Command(command, parameter) ==
    [method |-> "POST", url |-> "switchbot", command |-> command, parameter |-> parameter]

Webhook(embed) == [method |-> "POST", url |-> "discord", embed |-> embed]

\* where main() continues after a call that returned or raised
After(r, next) == IF r.exc THEN "raised" ELSE next

\* the environment fixes the three settings; the locals of main() are not
\* bound yet and hold placeholders that no step reads before assigning them
InitRun ==
    /\ USE_COLOR_TEMPERATURE \in BOOLEAN
    /\ DISCORD_ENABLED \in BOOLEAN
    /\ DISCORD_WEBHOOK_URL \in WebhookUrls
    /\ pc = "fetch"
    /\ rain = 0
    /\ weather_data = EmptyDict
    /\ lamp_setting = EmptyDict
    /\ trace = <<>>
    /\ log = <<>>
    /\ discord_resp = "none"
    /\ discord_ret = FALSE
    /\ result = FALSE
    /\ fn = "main"
    /\ arg = None
    /\ out = None

\* rain, weather_data = get_today_rain_percent_max_all(CITY_CODE)
FetchForecast ==
    /\ pc = "fetch"
    /\ \E resp \in ForecastResponses :
         LET r == get_today_rain_percent_max_all(resp)
         IN  /\ trace' = Append(trace, Get)
             /\ log' = log \o get_today_rain_percent_max_all_log(resp)
             /\ pc' = After(r, "map")
             /\ rain' = IF r.exc THEN rain ELSE r.val[1]
             /\ weather_data' = IF r.exc THEN weather_data ELSE r.val[2]
    /\ UNCHANGED <<config, lamp_setting, discord_resp, discord_ret, result, unit>>

\* lamp_setting = {"max_rain": rain} and the mode's colour
ChooseSetting ==
    /\ pc = "map"
    /\ lamp_setting' = IF USE_COLOR_TEMPERATURE
                       THEN [max_rain |-> rain, ct |-> map_rain_to_ct(rain)]
                       ELSE [max_rain |-> rain, rgb |-> map_rain_to_rgb(rain)]
    /\ pc' = "setBrightness"
    /\ UNCHANGED <<config, rain, weather_data, trace, log, discord_resp, discord_ret,
                   result, unit>>

\* one post_command of set_lamp_rgb / set_lamp_ct
IssueCommand(command, parameter, next) ==
    /\ \E resp \in CommandResponses :
         /\ trace' = Append(trace, Command(command, parameter))
         /\ log' = Append(log, post_command_log(resp))
         /\ pc' = After(post_command(resp), next)
    /\ UNCHANGED <<config, rain, weather_data, lamp_setting, discord_resp, discord_ret,
                   result, unit>>

SetBrightness ==
    /\ pc = "setBrightness"
    /\ IssueCommand("setBrightness", Str(clamp_brightness(Brightness)), "setColor")

SetColor ==
    /\ pc = "setColor"
    /\ ~USE_COLOR_TEMPERATURE
    /\ IssueCommand("setColor", RgbParameter(lamp_setting.rgb), "turnOn")

SetColorTemperature ==
    /\ pc = "setColor"
    /\ USE_COLOR_TEMPERATURE
    /\ IssueCommand("setColorTemperature", CtParameter(lamp_setting.ct), "turnOn")

TurnOn ==
    /\ pc = "turnOn"
    /\ IssueCommand("turnOn", <<"default">>, "notify")

\* send_discord_notification(weather_data, lamp_setting)
Notify ==
    /\ pc = "notify"
    /\ \E resp \in WebhookResponses :
         LET r == send_discord_notification(weather_data, lamp_setting, DISCORD_ENABLED,
                                            DISCORD_WEBHOOK_URL, USE_COLOR_TEMPERATURE, resp)
             posted == ~r.exc /\ r.val.posted
         IN  /\ trace' = IF posted
                         THEN Append(trace, Webhook(build_discord_embed(
                                  weather_data, lamp_setting, USE_COLOR_TEMPERATURE)))
                         ELSE trace
             /\ log' = log \o send_discord_notification_log(r, resp)
             /\ discord_resp' = IF posted THEN resp ELSE "none"
             /\ discord_ret' = IF r.exc THEN discord_ret ELSE r.val.ret
             /\ pc' = After(r, "return")
    /\ UNCHANGED <<config, rain, weather_data, lamp_setting, result, unit>>

\* return True
Return ==
    /\ pc = "return"
    /\ result' = TRUE
    /\ pc' = "done"
    /\ UNCHANGED <<config, rain, weather_data, lamp_setting, trace, log, discord_resp,
                   discord_ret, unit>>

Next ==
    \/ FetchForecast
    \/ ChooseSetting
    \/ SetBrightness
    \/ SetColor
    \/ SetColorTemperature
    \/ TurnOn
    \/ Notify
    \/ Return

Spec == InitRun /\ [][Next]_vars

\* main() is sequential code: a step that can be taken is taken
LiveSpec == Spec /\ WF_vars(Next)

-----------------------------------------------------------------------------
(* The pure functions, each applied once to an argument drawn in the initial state *)

LevelPad == 20

\* rain levels, with LevelPad values on either side of 0..100
Levels == (0 - LevelPad)..(100 + LevelPad)

UnitCalls ==
    { <<"map_rain_to_rgb", l>> : l \in Levels }
    \cup { <<"map_rain_to_ct", l>> : l \in Levels }
    \cup { <<"format_temperature", t>> : t \in Temperatures }
    \cup { <<"post_command", r>> : r \in CommandResponses }

InitUnit ==
    /\ USE_COLOR_TEMPERATURE = FALSE
    /\ DISCORD_ENABLED = FALSE
    /\ DISCORD_WEBHOOK_URL = ""
    /\ pc = "call"
    /\ rain = 0
    /\ weather_data = EmptyDict
    /\ lamp_setting = EmptyDict
    /\ trace = <<>>
    /\ log = <<>>
    /\ discord_resp = "none"
    /\ discord_ret = FALSE
    /\ result = FALSE
    /\ \E c \in UnitCalls : fn = c[1] /\ arg = c[2]
    /\ out = Returns(None)

Apply(f, r) ==
    /\ pc = "call"
    /\ fn = f
    /\ out' = r
    /\ pc' = "returned"
    /\ UNCHANGED <<config, rain, weather_data, lamp_setting, trace, log, discord_resp,
                   discord_ret, result, fn, arg>>

CallMapRainToRgb == fn = "map_rain_to_rgb" /\ Apply("map_rain_to_rgb", Returns(map_rain_to_rgb(arg)))

CallMapRainToCt == fn = "map_rain_to_ct" /\ Apply("map_rain_to_ct", Returns(map_rain_to_ct(arg)))

CallFormatTemperature ==
    fn = "format_temperature" /\ Apply("format_temperature", Returns(format_temperature(arg)))

CallPostCommand == fn = "post_command" /\ Apply("post_command", post_command(arg))

NextUnit ==
    \/ CallMapRainToRgb
    \/ CallMapRainToCt
    \/ CallFormatTemperature
    \/ CallPostCommand

UnitSpec == InitUnit /\ [][NextUnit]_vars

-----------------------------------------------------------------------------
(* Properties of one run of main() *)

ColorCommand == IF USE_COLOR_TEMPERATURE THEN "setColorTemperature" ELSE "setColor"

CallName(c) ==
    IF c.url = "weather" THEN "GET"
    ELSE IF c.url = "discord" THEN "webhook"
    ELSE c.command

ExpectedCalls == <<"GET", "setBrightness", ColorCommand, "turnOn", "webhook">>

\* how many external calls main() has issued when it stands at pc
CallsIssued ==
    CASE pc = "fetch" -> {0}
      [] pc \in {"map", "setBrightness"} -> {1}
      [] pc = "setColor" -> {2}
      [] pc = "turnOn" -> {3}
      [] pc = "notify" -> {4}
      [] pc \in {"return", "done"} -> {4, 5}
      [] OTHER -> {}

CommandErrors ==
    Cardinality({i \in DOMAIN log : log[i] = [level |-> "error", logger |-> "post_command"]})

FetchFailed == Len(log) >= 1 /\ log[1] = [level |-> "error", logger |-> "weather"]

WebhookCalls == {i \in DOMAIN trace : trace[i].url = "discord"}

\* C1: whatever the external calls answer, the calls of one run are, in this
\* order, one forecast GET, setBrightness, setColor or setColorTemperature by
\* mode, turnOn and at most one webhook POST: each is issued once, none is
\* skipped after a failed command, and the run never stops on an exception.
C1_CallTrace ==
    /\ pc # "raised"
    /\ Len(trace) \in CallsIssued
    /\ \A i \in DOMAIN trace :
         /\ CallName(trace[i]) = ExpectedCalls[i]
         /\ trace[i].method = IF i = 1 THEN "GET" ELSE "POST"

C1_Witness ==
    /\ pc = "done"
    /\ Len(trace) = 5
    /\ CommandErrors = 3

\* the responses of the forecast provider the claim calls a failed fetch
IsFailedFetch(resp) ==
    \/ resp.kind \in FailureKinds
    \/ "forecasts" \notin DOMAIN resp.data
    \/ resp.data.forecasts = <<>>
    \/ "chanceOfRain" \notin DOMAIN resp.data.forecasts[1]

ZeroPercentParameter ==
    IF USE_COLOR_TEMPERATURE
    THEN <<"2", "7", "0", "0">>
    ELSE <<"2", "5", "5", ":", "1", "2", "7", ":", "0">>

\* C2: a failed forecast fetch (transport error, non-2xx status, body that is
\* not JSON, forecasts[0].chanceOfRain missing) returns (0, {}) without
\* raising, and the run goes on to issue the three lamp commands with the
\* zero-percent colour: 255:127:0 in RGB mode, 2700 in colour-temperature mode.
C2_FetchFailureAbsorbed ==
    /\ \A resp \in ForecastResponses :
         IsFailedFetch(resp) =>
            LET r == get_today_rain_percent_max_all(resp)
            IN  ~r.exc /\ r.val[1] = 0 /\ DOMAIN r.val[2] = {}
    /\ (pc # "fetch" /\ FetchFailed) =>
         /\ pc # "raised"
         /\ rain = 0
         /\ DOMAIN weather_data = {}
         /\ Len(trace) >= 3 => trace[3].parameter = ZeroPercentParameter
         /\ pc \in {"notify", "return", "done"} =>
              /\ Len(trace) = 4
              /\ trace[2].command = "setBrightness"
              /\ trace[3].command = ColorCommand
              /\ trace[4].command = "turnOn"

C2_Witness ==
    /\ pc = "done"
    /\ FetchFailed
    /\ ~USE_COLOR_TEMPERATURE
    /\ trace[3].parameter = <<"2", "5", "5", ":", "1", "2", "7", ":", "0">>

\* the statements of main() in program order
PcRank ==
    CASE pc = "fetch" -> 0
      [] pc = "map" -> 1
      [] pc = "setBrightness" -> 2
      [] pc = "setColor" -> 3
      [] pc = "turnOn" -> 4
      [] pc = "notify" -> 5
      [] pc = "return" -> 6
      [] OTHER -> 7

\* C4: every run of main() ends, and ends returning True, whatever the
\* forecast fetch, the three device commands and the notification did: no
\* step raises, every step moves main() forward, main() returns in the end,
\* and the value it returns is True.
C4_ReturnsTrue ==
    /\ [](pc # "raised")
    /\ [](pc = "done" => result = TRUE)
    /\ [][PcRank' > PcRank]_vars
    /\ <>(pc = "done")

C4_Witness ==
    /\ pc = "done"
    /\ result = TRUE
    /\ CommandErrors = 3
    /\ discord_resp = "network_error"
    /\ discord_ret = FALSE

\* C5: send_discord_notification returns True without a POST when
\* notifications are disabled, else False without a POST when the webhook URL
\* is unset, else False without a POST when the forecast is empty, and else
\* makes one POST and returns True iff it succeeded; it never raises.
C5_NotificationGuards ==
    /\ pc \in {"fetch", "map", "setBrightness", "setColor", "turnOn", "notify"} =>
         WebhookCalls = {}
    /\ pc \in {"return", "done"} =>
         IF ~DISCORD_ENABLED THEN discord_ret = TRUE /\ WebhookCalls = {}
         ELSE IF DISCORD_WEBHOOK_URL = "" THEN discord_ret = FALSE /\ WebhookCalls = {}
         ELSE IF DOMAIN weather_data = {} THEN discord_ret = FALSE /\ WebhookCalls = {}
         ELSE /\ WebhookCalls = {5}
              /\ discord_resp \in WebhookResponses
              /\ discord_ret = (discord_resp = "ok")
    /\ pc = "raised" => Len(trace) < 4

C5_Witness ==
    /\ pc = "done"
    /\ DISCORD_ENABLED
    /\ DISCORD_WEBHOOK_URL # ""
    /\ WebhookCalls = {5}
    /\ discord_resp = "http_error"
    /\ discord_ret = FALSE

\* the digits of s read left to right as a decimal number, 0 if there are none
RECURSIVE DigitsValue(_, _)
DigitsValue(s, acc) ==
    IF s = <<>> THEN acc
    ELSE DigitsValue(Tail(s), IF IsDigit(Head(s)) THEN 10 * acc + DigitVal(Head(s)) ELSE acc)

DaySlots == {"T06_12", "T12_18", "T18_24"}

\* the forecast with its T00_06 value replaced by v (removed when v is Missing)
WithNightSlot(wd, v) ==
    LET f == wd.forecasts[1]
        r == f.chanceOfRain
        keys == (DOMAIN r \ {"T00_06"}) \cup (IF v = Missing THEN {} ELSE {"T00_06"})
    IN  [wd EXCEPT !.forecasts =
           <<[f EXCEPT !.chanceOfRain = [k \in keys |-> IF k = "T00_06" THEN v ELSE r[k]]]>>]

C7_RainLevelInRange == pc \notin {"fetch", "raised"} => rain \in 0..100

-----------------------------------------------------------------------------
(* Properties of the pure functions *)

Returned(f) == pc = "returned" /\ fn = f

\* C3: post_command never raises; it returns the failure indicator (None) on
\* a transport error, on a non-2xx status and on a 2xx payload whose
\* statusCode is not 100, and the payload only when statusCode is 100.
C3_FailureIndicator ==
    Returned("post_command") =>
        /\ ~out.exc
        /\ IF arg.kind = "json" /\ "statusCode" \in DOMAIN arg.data /\ arg.data.statusCode = 100
           THEN out.val = arg.data
           ELSE ~TruthyDict(out.val)

RgbTable(l) ==
    CASE l = 0 -> <<255, 127, 0>>
      [] l \in 1..20 -> <<255, 255, 0>>
      [] l \in 21..40 -> <<127, 255, 0>>
      [] l \in 41..60 -> <<0, 255, 255>>
      [] l \in 61..80 -> <<0, 127, 255>>
      [] l \in 81..100 -> <<0, 0, 255>>

\* C8: map_rain_to_rgb returns for every integer level a triple of channels
\* in 0..255, and on 0..100 it is the six-bucket table whose boundaries 20,
\* 40, 60, 80 belong to the lower bucket.
C8_RgbBuckets ==
    Returned("map_rain_to_rgb") =>
        /\ ~out.exc
        /\ Len(out.val) = 3
        /\ \A i \in 1..3 : out.val[i] \in 0..255
        /\ arg \in 0..100 => out.val = RgbTable(arg)

C8_Witness ==
    /\ Returned("map_rain_to_rgb")
    /\ arg = 20
    /\ out.val = <<255, 255, 0>>

\* 2700 + 3800*level/100 truncated, for the level clamped to 0..100
Interpolation(l) ==
    2700 + (3800 * (IF l < 0 THEN 0 ELSE IF l > 100 THEN 100 ELSE l)) \div 100

\* what C9 says of every level, the value at 70 apart
CtShape ==
    /\ ~out.exc
    /\ out.val \in 2700..6500
    /\ out.val = Interpolation(arg)
    /\ map_rain_to_ct(arg - 1) <= out.val
    /\ arg < 0 => out.val = 2700
    /\ arg > 100 => out.val = 6500
    /\ arg = 0 => out.val = 2700
    /\ arg = 50 => out.val = 4600
    /\ arg = 100 => out.val = 6500

\* C9 as stated: map_rain_to_ct returns 2700 + 3800*level/100 truncated, for
\* the level clamped to 0..100: a value in 2700..6500 that does not decrease
\* with the level, 2700 at 0, 4600 at 50, 5260 at 70, 6500 at 100, and
\* 2700 / 6500 below 0 / above 100.
C9_Original ==
    Returned("map_rain_to_ct") => CtShape /\ (arg = 70 => out.val = 5260)

\* C9 as amended: map_rain_to_ct returns 2700 + 3800*level/100 truncated, for
\* the level clamped to 0..100: a value in 2700..6500 that does not decrease
\* with the level, 2700 at 0, 4600 at 50, 5360 at 70, 6500 at 100, and
\* 2700 / 6500 below 0 / above 100.
C9_Amended ==
    Returned("map_rain_to_ct") => CtShape /\ (arg = 70 => out.val = 5360)

C9_Witness ==
    /\ Returned("map_rain_to_ct")
    /\ arg = 70
    /\ out.val = 5360

\* the celsius string of component k of temp, None when it counts as absent:
\* the component is null, or its celsius is missing, null, empty or blank
Celsius(temp, k) ==
    IF /\ IsDict(temp[k])
       /\ "celsius" \in DOMAIN temp[k]
       /\ temp[k].celsius # None
       /\ \E i \in DOMAIN temp[k].celsius : temp[k].celsius[i] # " "
    THEN temp[k].celsius
    ELSE None

\* the celsius string of component k, a missing component counting as absent too
CelsiusOrMissing(temp, k) ==
    IF TruthyDict(temp) /\ k \in DOMAIN temp THEN Celsius(temp, k) ELSE None

RangeText(lo, hi) ==
    IF lo # None /\ hi # None THEN lo \o <<"C / ">> \o hi \o <<"C">>
    ELSE IF hi # None THEN <<"Max ">> \o hi \o <<"C">>
    ELSE IF lo # None THEN <<"Min ">> \o lo \o <<"C">>
    ELSE <<"--">>

\* C10 as stated: with a missing, null or empty component counting as absent,
\* format_temperature returns "{min}C / {max}C", "Max {max}C", "Min {min}C"
\* or "--" by which of min and max are present.
C10_Original ==
    Returned("format_temperature") =>
        out.val = RangeText(CelsiusOrMissing(arg, "min"), CelsiusOrMissing(arg, "max"))

\* C10 as amended: format_temperature returns "--" when its argument is
\* empty or None or lacks the min key or the max key; otherwise it returns
\* "{min}C / {max}C", "Max {max}C", "Min {min}C" or "--" by which of min and
\* max are present, a null component and a missing, null, empty or blank
\* celsius counting as absent.
C10_Amended ==
    Returned("format_temperature") =>
        /\ ~out.exc
        /\ out.val = IF TruthyDict(arg) /\ {"min", "max"} \subseteq DOMAIN arg
                     THEN RangeText(Celsius(arg, "min"), Celsius(arg, "max"))
                     ELSE <<"--">>

C10_Witness ==
    /\ Returned("format_temperature")
    /\ TruthyDict(arg)
    /\ DOMAIN arg = {"max"}
    /\ arg.max = [celsius |-> <<"1", "5">>]
    /\ out.val = <<"--">>

====
